---- MODULE Spec2Model ----
(***************************************************************************)
(* Buse 128x19 SPI framebuffer driver.                                     *)
(*                                                                         *)
(*   src/busefb.c          periodic variant: refresh_timer + cs_delay_timer*)
(*   src/unnamed/part_001  chained variant: runtime geometry, the hold of  *)
(*                         group 3 queues the next refresh                 *)
(*   src/unnamed/part_000  synchronous variant: one work item per frame    *)
(*                                                                         *)
(* Byte buffers are functions over 0..len-1 with values in 0..255.         *)
(***************************************************************************)
EXTENDS Integers, Sequences, FiniteSets, TLC

VARIABLES
    screen_base,     \* info->screen_base: the linear 1bpp surface
    shadow_vram,     \* par->shadow_vram: the snapshot
    frame_buffer,    \* par->frame_buffer: the hardware frame
    current_group,   \* par->current_group
    cs_gpio,         \* value last set on par->cs_gpio
    refresh_timer,   \* par->refresh_timer is armed
    cs_delay_timer,  \* par->cs_delay_timer is armed
    wq,              \* par->wq: the pending work items, oldest first
    running,         \* the work item the worker thread is executing (it is
                     \* blocked in spi_sync), or "none"
    rm_pc,           \* how far busefb_remove has got
    dt,              \* device properties width, height, panels seen by probe
    fault,           \* the step of busefb_probe that fails, or "none"
    cfg,             \* par->config (part_001)
    probe_pc,        \* "start", "done" (probe returned) or "oops"
    probe_ret,       \* return value of busefb_probe
    registered,      \* the framebuffer is registered
    smem_len,        \* info->fix.smem_len
    held,            \* resources allocated and not released
    acquired,        \* history: resources probe has acquired
    released,        \* history: the releases, in the order of the calls
    copy_pos,        \* bytes the memcpy of refresh_work_func has copied so
                     \* far, or -1 outside the locked region
    encoded,         \* history: refresh_work_func has encoded shadow_vram
    seen,            \* history: the contents screen_base has had since the
                     \* running memcpy began
    first_frame,     \* history: snapshot |-> the frame its first encode gave
    oob,             \* history: the encoder wrote outside frame_buffer
    tx,              \* history: groups written to the bus since the
                     \* scheduler was last idle (at most MaxLog kept)
    failed_at,       \* history: group whose bus write failed since the last
                     \* encode, or -1
    uaf              \* history: a callback ran after the buffers were freed

snapVars == <<copy_pos, seen, first_frame, oob>>
bufVars == <<screen_base, shadow_vram, frame_buffer, encoded, snapVars>>
schedVars == <<current_group, cs_gpio, refresh_timer, cs_delay_timer, wq,
               running, rm_pc, tx, failed_at, uaf>>
probeVars == <<dt, fault, cfg, probe_pc, probe_ret, registered, smem_len, held,
               acquired, released>>
vars == <<bufVars, schedVars, probeVars>>

\* Length at which the history tx stops growing.
MaxLog == 4

----------------------------------------------------------------------------
(* Geometry of busefb.c (compile-time).                                    *)

WIDTH == 128
HEIGHT == 19
PANELS == 4
PANEL_COLS == WIDTH \div PANELS
GROUPS == 4
COLS_PER_GROUP == PANEL_COLS \div GROUPS
REGS_PER_COL == 3
DATA_BYTES_PER_PANEL == COLS_PER_GROUP * REGS_PER_COL
PANEL_BYTES == DATA_BYTES_PER_PANEL + 1
GROUP_BYTES == PANELS * PANEL_BYTES
FRAME_BYTES == GROUPS * GROUP_BYTES

\* info->fix.smem_len = WIDTH * HEIGHT / 8
SMEM_LEN == (WIDTH * HEIGHT) \div 8

----------------------------------------------------------------------------
(* C bit operations on bytes.                                              *)

Pow2(n) == 2 ^ n

\* v & (1 << b)
TestBit(v, b) == (v \div Pow2(b)) % 2 = 1

\* v |= 1 << b, stored into a u8
OrBit(v, b) == IF TestBit(v, b) THEN v ELSE (v + Pow2(b)) % 256

\* n ^ 0x01
Xor1(n) == IF n % 2 = 0 THEN n + 1 ELSE n - 1

ZeroBytes(n) == [i \in 0..(n - 1) |-> 0]

\* A buffer of at least one byte. (The model checker evaluates the arguments
\* of an operator when they are first used; this test uses f.)
IsBuffer(f) == DOMAIN f # {}

----------------------------------------------------------------------------
(* The encoder of busefb.c: the loop body and the two nested loops of      *)
(* refresh_work_func.                                                      *)

\* EncodePixel without the horizontal mirror (the loop of part_000).
EncodePixel_NoMirror(snap, frame, y, x) ==
    LET idx == y * WIDTH + x
    IN  IF ~TestBit(snap[idx \div 8], idx % 8)
        THEN frame
        ELSE LET y_rev == HEIGHT - 1 - y
                 reg == y_rev \div 8
                 bit == 7 - (y_rev % 8)
                 panel == x \div PANEL_COLS
                 grp == x % GROUPS
                 cp == Xor1((x % PANEL_COLS) \div GROUPS)
                 base == grp * GROUP_BYTES + panel * PANEL_BYTES
                 dst == base + 1 + cp * REGS_PER_COL + reg
                 withSel == [frame EXCEPT ![base] = grp]
             IN  [withSel EXCEPT ![dst] = OrBit(withSel[dst], bit)]

\* EncodePixel without the swap of adjacent column pairs (no ^ 0x01).
EncodePixel_NoSwap(snap, frame, y, x) ==
    LET x_mirrored == WIDTH - 1 - x
        idx == y * WIDTH + x_mirrored
    IN  IF ~TestBit(snap[idx \div 8], idx % 8)
        THEN frame
        ELSE LET y_rev == HEIGHT - 1 - y
                 reg == y_rev \div 8
                 bit == 7 - (y_rev % 8)
                 panel == x \div PANEL_COLS
                 grp == x % GROUPS
                 cp == (x % PANEL_COLS) \div GROUPS
                 base == grp * GROUP_BYTES + panel * PANEL_BYTES
                 dst == base + 1 + cp * REGS_PER_COL + reg
                 withSel == [frame EXCEPT ![base] = grp]
             IN  [withSel EXCEPT ![dst] = OrBit(withSel[dst], bit)]

\* One iteration of the inner loop: pixel test, then the two stores.
EncodePixel(snap, frame, y, x) ==
    LET x_mirrored == WIDTH - 1 - x
        idx == y * WIDTH + x_mirrored
    IN  IF ~TestBit(snap[idx \div 8], idx % 8)
        THEN frame
        ELSE LET y_rev == HEIGHT - 1 - y
                 reg == y_rev \div 8
                 bit == 7 - (y_rev % 8)
                 panel == x \div PANEL_COLS
                 grp == x % GROUPS
                 cp == Xor1((x % PANEL_COLS) \div GROUPS)
                 base == grp * GROUP_BYTES + panel * PANEL_BYTES
                 dst == base + 1 + cp * REGS_PER_COL + reg
                 withSel == [frame EXCEPT ![base] = grp]
             IN  [withSel EXCEPT ![dst] = OrBit(withSel[dst], bit)]

RECURSIVE EncodeCols(_, _, _, _, _)
\* The iterations x = lo, lo+1, .., hi-1 of the inner loop, in that order.
\* The range is split in halves, and the first half is evaluated (by the test
\* IsBuffer) before the second starts, only to bound the depth of evaluation.
EncodeCols(snap, frame, y, lo, hi) ==
    IF lo >= hi THEN frame
    ELSE IF hi = lo + 1 THEN EncodePixel(snap, frame, y, lo)
    ELSE LET mid == (lo + hi) \div 2
             first == EncodeCols(snap, frame, y, lo, mid)
         IN  IF IsBuffer(first) THEN EncodeCols(snap, first, y, mid, hi)
             ELSE first

\* for (x = 0; x < WIDTH; x++)
EncodeRow(snap, frame, y) == EncodeCols(snap, frame, y, 0, WIDTH)

RECURSIVE EncodeRows(_, _, _)
\* for (y = 0; y < HEIGHT; y++)
EncodeRows(snap, frame, y) ==
    IF y >= HEIGHT THEN frame
    ELSE LET row == EncodeRow(snap, frame, y)
         IN  IF IsBuffer(row) THEN EncodeRows(snap, row, y + 1) ELSE row

\* memset(frame_buffer, 0, FRAME_BYTES) followed by the loops
Encode(snap) == EncodeRows(snap, ZeroBytes(FRAME_BYTES), 0)

----------------------------------------------------------------------------
(* Surfaces the encoder is exercised on.                                   *)

ZeroSurface == ZeroBytes(SMEM_LEN)

\* One pixel set: bit idx of the surface (bit idx & 7 of byte idx >> 3).
OnePixel(idx) == [ZeroSurface EXCEPT ![idx \div 8] = Pow2(idx % 8)]

OnePixelSurfaces == {OnePixel(idx) : idx \in 0..(WIDTH * HEIGHT - 1)}

\* A few surfaces with many pixels set.
DenseSurfaces ==
    { [k \in 0..(SMEM_LEN - 1) |-> 255],
      [k \in 0..(SMEM_LEN - 1) |-> IF k % 2 = 0 THEN 165 ELSE 0] }

EncSurfaces == {ZeroSurface} \cup OnePixelSurfaces \cup DenseSurfaces

\* The bits set in a surface, as bit indices idx = y * WIDTH + column.
SetBits(snap) ==
    {i \in 0..(WIDTH * HEIGHT - 1) : TestBit(snap[i \div 8], i % 8)}

\* Selector bytes are byte 0 of each panel block.
SelectorAt(g, p) == g * GROUP_BYTES + p * PANEL_BYTES
IsSelector(k) == k % PANEL_BYTES = 0

\* The data bits set in a frame, as <<byte offset, bit>>.
DataBits(frame) ==
    {kb \in (0..(FRAME_BYTES - 1)) \X (0..7) :
        ~IsSelector(kb[1]) /\ TestBit(frame[kb[1]], kb[2])}

----------------------------------------------------------------------------
(* Workqueue and lifecycle, common to the variants.                        *)

Range(q) == {q[i] : i \in 1..Len(q)}

\* queue_work mutated: it queues the work item even if it is pending.
queue_work_NoCoalesce(q, w) == Append(q, w)

\* queue_work: a work item that is already pending is not queued again.
queue_work(q, w) == IF w \in Range(q) THEN q ELSE Append(q, w)

\* No memcpy of the surface is running and nothing is recorded about it.
SnapIdle ==
    /\ copy_pos = -1
    /\ seen = {}
    /\ first_frame = <<>>
    /\ oob = FALSE

\* The state of the scheduling fields after a successful probe that started
\* no timer: kzalloc'ed par, chip-select requested GPIOD_OUT_HIGH.
SchedIdle ==
    /\ current_group = 0
    /\ cs_gpio = 1
    /\ refresh_timer = FALSE
    /\ cs_delay_timer = FALSE
    /\ wq = <<>>
    /\ running = "none"
    /\ rm_pc = "bound"
    /\ tx = <<>>
    /\ failed_at = -1
    /\ uaf = FALSE

\* busefb_probe of busefb.c has returned 0: everything is allocated and the
\* framebuffer is registered. The geometry is the compile-time one.
ProbedFixed ==
    /\ dt = [width |-> WIDTH, height |-> HEIGHT, panels |-> PANELS]
    /\ fault = "none"
    /\ cfg = [width |-> WIDTH, height |-> HEIGHT, panels |-> PANELS,
              regs_per_col |-> REGS_PER_COL, panel_cols |-> PANEL_COLS,
              cols_per_group |-> COLS_PER_GROUP, panel_bytes |-> PANEL_BYTES,
              group_bytes |-> GROUP_BYTES, frame_bytes |-> FRAME_BYTES]
    /\ probe_pc = "done"
    /\ probe_ret = 0
    /\ registered = TRUE
    /\ smem_len = SMEM_LEN
    /\ held = {"info", "screen_base", "shadow_vram", "wq"}
    /\ acquired = held
    /\ released = <<>>

\* History: one more bus write, of group g.
Logged(g) == IF Len(tx) < MaxLog THEN Append(tx, g) ELSE tx

\* The workqueue exists and its worker runs work items (until
\* destroy_workqueue returns).
WorkerAlive == rm_pc \in {"bound", "refresh_cancelled", "cs_cancelled", "draining"}

\* destroy_workqueue is draining: queue_work from outside the workqueue's own
\* work items is refused.
Draining == rm_pc = "draining"

\* The buffers (and par with its timers) are released.
Freed == rm_pc \in {"freed", "oops"}

\* A timer callback that runs after busefb_remove has freed the workqueue and
\* the buffers: it dereferences freed memory. The outcome is undefined: the
\* stale queue_work may do nothing visible, or the kernel oopses.
CallbackAfterFree ==
    /\ uaf' = TRUE
    /\ rm_pc' \in {"freed", "oops"}

----------------------------------------------------------------------------
(* The periodic scheduler of busefb.c.                                     *)

\* Surfaces the external writer puts on the screen in the scheduler runs.
SchedSurfaces == {ZeroSurface, OnePixel(0)}

\* Encode, tabulated once on SchedSurfaces.
SchedFrames ==
    (ZeroSurface :> Encode(ZeroSurface)) @@ (OnePixel(0) :> Encode(OnePixel(0)))

PerInit ==
    /\ screen_base = ZeroSurface
    /\ shadow_vram = ZeroSurface
    /\ frame_buffer = ZeroBytes(FRAME_BYTES)
    /\ encoded = FALSE
    /\ SnapIdle
    /\ current_group = 0
    /\ cs_gpio = 1
    /\ refresh_timer = TRUE
    /\ cs_delay_timer = FALSE
    /\ wq = <<>>
    /\ running = "none"
    /\ rm_pc = "bound"
    /\ tx = <<>>
    /\ failed_at = -1
    /\ uaf = FALSE
    /\ ProbedFixed

\* fb_write / fillrect / copyarea / imageblit on screen_base (no lock taken).
fb_write ==
    /\ ~Freed
    /\ \E s \in SchedSurfaces : s # screen_base /\ screen_base' = s
    /\ UNCHANGED <<shadow_vram, frame_buffer, encoded, snapVars, schedVars, probeVars>>

\* refresh_timer_callback: queue refresh_work, re-arm (HRTIMER_RESTART).
refresh_timer_callback ==
    /\ refresh_timer
    /\ IF Freed
       THEN CallbackAfterFree /\ UNCHANGED wq
       ELSE /\ wq' = IF Draining THEN wq ELSE queue_work(wq, "refresh_work")
            /\ UNCHANGED <<rm_pc, uaf>>
    /\ UNCHANGED <<bufVars, probeVars, current_group, cs_gpio, refresh_timer,
                   cs_delay_timer, running, tx, failed_at>>

\* cs_delay_timer_callback: queue cs_reassert_work, HRTIMER_NORESTART.
cs_delay_timer_callback ==
    /\ cs_delay_timer
    /\ cs_delay_timer' = FALSE
    /\ IF Freed
       THEN CallbackAfterFree /\ UNCHANGED wq
       ELSE /\ wq' = IF Draining THEN wq ELSE queue_work(wq, "cs_reassert_work")
            /\ UNCHANGED <<rm_pc, uaf>>
    /\ UNCHANGED <<bufVars, probeVars, current_group, cs_gpio, refresh_timer,
                   running, tx, failed_at>>

\* process_next_group mutated: no test of g against GROUPS.
process_next_group_NoGuard(work, g) ==
    /\ current_group' = g
    /\ running' = work
    /\ tx' = Logged(g)
    /\ UNCHANGED failed_at

\* process_next_group entered by work item `work` with par->current_group = g,
\* up to its return (g >= GROUPS) or to the blocking spi_sync.
process_next_group(work, g) ==
    IF g >= GROUPS
    THEN /\ current_group' = 0
         /\ running' = "none"
         /\ tx' = <<>>
         /\ failed_at' = -1
    ELSE /\ current_group' = g
         /\ running' = work
         /\ tx' = Logged(g)
         /\ UNCHANGED failed_at

\* refresh_work_func, from its start to the spi_sync of group 0.
refresh_work_func ==
    /\ WorkerAlive
    /\ running = "none"
    /\ wq # <<>> /\ Head(wq) = "refresh_work"
    /\ wq' = Tail(wq)
    /\ shadow_vram' = screen_base
    /\ frame_buffer' = SchedFrames[shadow_vram']
    /\ encoded' = TRUE
    /\ current_group' = 0
    /\ cs_gpio' = 1
    /\ running' = "refresh_work"
    /\ tx' = Logged(0)
    /\ failed_at' = -1
    /\ UNCHANGED <<screen_base, snapVars, probeVars, refresh_timer, cs_delay_timer,
                   rm_pc, uaf>>

\* cs_reassert_work_func mutated: par->current_group is not incremented.
cs_reassert_work_func_NoIncrement ==
    /\ WorkerAlive
    /\ running = "none"
    /\ wq # <<>> /\ Head(wq) = "cs_reassert_work"
    /\ wq' = Tail(wq)
    /\ cs_gpio' = 1
    /\ process_next_group("cs_reassert_work", current_group)
    /\ UNCHANGED <<bufVars, probeVars, refresh_timer, cs_delay_timer, rm_pc, uaf>>

\* cs_reassert_work_func, from its start to its return or to the spi_sync of
\* the next group.
cs_reassert_work_func ==
    /\ WorkerAlive
    /\ running = "none"
    /\ wq # <<>> /\ Head(wq) = "cs_reassert_work"
    /\ wq' = Tail(wq)
    /\ cs_gpio' = 1
    /\ process_next_group("cs_reassert_work", current_group + 1)
    /\ UNCHANGED <<bufVars, probeVars, refresh_timer, cs_delay_timer, rm_pc, uaf>>

\* spi_sync returns in process_next_group: the result is dropped, chip-select
\* goes low and the hold timer is (re)started; the work item returns.
spi_sync_return ==
    /\ running # "none"
    /\ \E ret \in {"ok", "error"} :
          failed_at' = IF ret = "error" /\ failed_at = -1
                          THEN current_group ELSE failed_at
    /\ cs_gpio' = 0
    /\ cs_delay_timer' = TRUE
    /\ running' = "none"
    /\ UNCHANGED <<bufVars, probeVars, current_group, refresh_timer, wq, rm_pc, tx, uaf>>

\* busefb_remove, step by step.
remove_cancel_refresh ==          \* hrtimer_cancel(&par->refresh_timer)
    /\ rm_pc = "bound"
    /\ rm_pc' = "refresh_cancelled"
    /\ refresh_timer' = FALSE
    /\ UNCHANGED <<bufVars, probeVars, current_group, cs_gpio, cs_delay_timer, wq,
                   running, tx, failed_at, uaf>>

remove_cancel_cs_delay ==         \* hrtimer_cancel(&par->cs_delay_timer)
    /\ rm_pc = "refresh_cancelled"
    /\ rm_pc' = "cs_cancelled"
    /\ cs_delay_timer' = FALSE
    /\ UNCHANGED <<bufVars, probeVars, current_group, cs_gpio, refresh_timer, wq,
                   running, tx, failed_at, uaf>>

remove_destroy_workqueue ==       \* unregister_framebuffer; destroy_workqueue starts draining
    /\ rm_pc = "cs_cancelled"
    /\ rm_pc' = "draining"
    /\ registered' = FALSE
    /\ UNCHANGED <<bufVars, dt, fault, cfg, probe_pc, probe_ret, smem_len, held,
                   acquired, released, current_group, cs_gpio, refresh_timer,
                   cs_delay_timer, wq, running, tx, failed_at, uaf>>

remove_free ==                    \* destroy_workqueue returns; vfree, framebuffer_release
    /\ rm_pc = "draining"
    /\ wq = <<>> /\ running = "none"
    /\ rm_pc' = "freed"
    /\ held' = {}
    /\ released' = released \o <<"wq", "shadow_vram", "screen_base", "info">>
    /\ UNCHANGED <<bufVars, dt, fault, cfg, probe_pc, probe_ret, registered, smem_len,
                   acquired, current_group, cs_gpio, refresh_timer,
                   cs_delay_timer, wq, running, tx, failed_at, uaf>>

PerNext ==
    \/ fb_write
    \/ refresh_timer_callback
    \/ cs_delay_timer_callback
    \/ refresh_work_func
    \/ cs_reassert_work_func
    \/ spi_sync_return
    \/ remove_cancel_refresh
    \/ remove_cancel_cs_delay
    \/ remove_destroy_workqueue
    \/ remove_free

SpecPeriodic == PerInit /\ [][PerNext]_vars

----------------------------------------------------------------------------
(* Claims about the periodic scheduler of busefb.c.                        *)

\* C1 (as claimed): between two idle states of the scheduler the bus writes
\* are those of groups 0, 1, 2, 3 in this order, at most GROUPS of them: the
\* k-th write since idle is the write of group k-1, so a write of g > 0
\* directly follows the write of g-1.
C1_CycleInOrder ==
    /\ Len(tx) <= GROUPS
    /\ \A i \in 1..Len(tx) : tx[i] = i - 1

\* A refresh cycle is in flight: refresh_work_func has started it and
\* cs_reassert_work_func has not yet processed the hold of group 3.
InFlight == tx # <<>>

\* The worker thread starts refresh_work_func in this step.
RefreshStarts == running = "none" /\ running' = "refresh_work"

\* C2 (as claimed): while a refresh cycle is in flight refresh_work_func does
\* not run: it neither clears or re-encodes frame_buffer nor resets
\* current_group, so two refresh cycles never overlap.
C2_NoRefreshInFlight ==
    [][InFlight =>
          /\ ~RefreshStarts
          /\ frame_buffer' = frame_buffer
          /\ (current_group' = 0 => (current_group = 0 \/ tx' = <<>>))]_vars

\* C3 (as claimed): once busefb_remove has destroyed the workqueue and freed
\* the buffers, neither timer is armed, no callback fires, and no work item
\* is queued or running.
C3_QuietAfterRemove ==
    Freed =>
        /\ ~refresh_timer
        /\ ~cs_delay_timer
        /\ ~uaf
        /\ wq = <<>>
        /\ running = "none"

\* C5 (as claimed): after the bus write of group g has failed, no hold timer
\* is started for it and no later group of that frame is transmitted.
C5_FailedWriteAbandonsCycle ==
    failed_at # -1 =>
        /\ ~cs_delay_timer
        /\ "cs_reassert_work" \notin Range(wq)
        /\ current_group <= failed_at

----------------------------------------------------------------------------
(* Encoder specification: one run of the snapshot and the encode of        *)
(* refresh_work_func of busefb.c, on each surface of EncSurfaces.          *)

EncInit ==
    /\ screen_base \in EncSurfaces
    /\ shadow_vram = ZeroSurface
    /\ frame_buffer = ZeroBytes(FRAME_BYTES)
    /\ encoded = FALSE
    /\ SnapIdle
    /\ SchedIdle
    /\ ProbedFixed

\* refresh_work_func up to the end of the loops: memcpy, memset, encode.
EncRefresh ==
    /\ ~encoded
    /\ shadow_vram' = screen_base
    /\ frame_buffer' = Encode(shadow_vram')
    /\ encoded' = TRUE
    /\ UNCHANGED <<screen_base, snapVars, schedVars, probeVars>>

EncNext == EncRefresh

SpecEnc == EncInit /\ [][EncNext]_vars

----------------------------------------------------------------------------
(* Claims about the encoder of busefb.c.                                   *)

\* C6 (as claimed): after every encode, byte 0 of the panel block of every
\* (group g, panel p) equals g, and for the all-zero snapshot every other
\* byte of the frame is 0.
C6_SelectorsEqualGroup ==
    encoded =>
        /\ \A g \in 0..(GROUPS - 1), p \in 0..(PANELS - 1) :
               frame_buffer[SelectorAt(g, p)] = g
        /\ (shadow_vram = ZeroSurface =>
               \A k \in 0..(FRAME_BYTES - 1) :
                   ~IsSelector(k) => frame_buffer[k] = 0)

C8_OnePixelOneBit ==
    (encoded /\ Cardinality(SetBits(shadow_vram)) = 1) =>
        LET idx == CHOOSE i \in SetBits(shadow_vram) : TRUE
            y == idx \div WIDTH
            x == WIDTH - 1 - (idx % WIDTH)
            panel == x \div PANEL_COLS
            group == x % 4
            colInPanel == Xor1((x % PANEL_COLS) \div 4)
            byte == group * GROUP_BYTES + panel * PANEL_BYTES + 1
                    + colInPanel * REGS_PER_COL + ((HEIGHT - 1 - y) \div 8)
            bit == 7 - ((HEIGHT - 1 - y) % 8)
        IN  DataBits(frame_buffer) = {<<byte, bit>>}

\* An interior pixel: x = 64, y = 9, read at column 63 of row 9.
C8_Witness ==
    /\ encoded
    /\ shadow_vram = OnePixel(9 * WIDTH + 63)
    /\ DataBits(frame_buffer) = {<<0 * GROUP_BYTES + 2 * PANEL_BYTES + 1 + 1 * REGS_PER_COL + 1, 6>>}

----------------------------------------------------------------------------
(* part_001: geometry computed by busefb_probe, in u32 arithmetic.         *)
(* A u32 is kept as <<hi, lo>>, its two 16-bit halves: TLC's integers stop *)
(* at 2^31 - 1.                                                             *)

Half == 65536

\* The u32 of a natural below 2^31, and back.
U32Of(n) == <<(n \div Half) % Half, n % Half>>
Val(a) == a[1] * Half + a[2]

U32_MAX == <<Half - 1, Half - 1>>

\* a + b modulo 2^32
AddU32(a, b) ==
    LET lo == a[2] + b[2]
    IN  <<(a[1] + b[1] + (lo \div Half)) % Half, lo % Half>>

\* a >= b
GeU32(a, b) == a[1] > b[1] \/ (a[1] = b[1] /\ a[2] >= b[2])

\* a - b, for a >= b
SubU32(a, b) ==
    IF a[2] >= b[2] THEN <<a[1] - b[1], a[2] - b[2]>>
    ELSE <<a[1] - b[1] - 1, a[2] + Half - b[2]>>

\* The product of two 16-bit halves, as a u32.
MulHalf(x, y) ==
    LET p1 == x * (y \div 256)
        p0 == x * (y % 256)
    IN  AddU32(<<p1 \div 256, (p1 % 256) * 256>>, U32Of(p0))

\* a * b modulo 2^32
MulU32(a, b) ==
    LET low == MulHalf(a[2], b[2])
        cross == (MulHalf(a[1], b[2])[2] + MulHalf(a[2], b[1])[2]) % Half
    IN  <<(low[1] + cross) % Half, low[2]>>

BitU32(a, i) == IF i >= 16 THEN TestBit(a[1], i - 16) ELSE TestBit(a[2], i)

\* Long division, bit i downwards: <<quotient, remainder>> of a by b > 0.
\* The comparison of q2 and r3 only makes TLC evaluate both before the next
\* bit.
RECURSIVE DivBits(_, _, _, _, _)
DivBits(a, b, i, q, r) ==
    IF i < 0 THEN <<q, r>>
    ELSE LET bit == IF BitU32(a, i) THEN 1 ELSE 0
             r2 == <<r[1] * 2 + (r[2] \div 32768), ((r[2] * 2) % Half) + bit>>
             take == GeU32(r2, b)
             q2 == IF ~take THEN q
                   ELSE IF i >= 16 THEN <<q[1] + Pow2(i - 16), q[2]>>
                   ELSE <<q[1], q[2] + Pow2(i)>>
             r3 == IF take THEN SubU32(r2, b) ELSE r2
         IN  IF GeU32(q2, r3) THEN DivBits(a, b, i - 1, q2, r3)
             ELSE DivBits(a, b, i - 1, q2, r3)

QuotU32(a, b) == DivBits(a, b, 31, <<0, 0>>, <<0, 0>>)[1]
RemU32(a, b) == DivBits(a, b, 31, <<0, 0>>, <<0, 0>>)[2]

\* a / b on u32. Division by zero is undefined: the CPU traps, or the
\* quotient is 0 (ARM).
DivU32(a, b) == IF b = <<0, 0>> THEN {"trap", <<0, 0>>} ELSE {QuotU32(a, b)}

\* DIV_ROUND_UP(n, d) on u32: ((n) + (d) - 1) / (d)
DIV_ROUND_UP(n, d) == QuotU32(AddU32(n, SubU32(d, U32Of(1))), d)

\* The fields of par->config, given the quotient width / panels.
ProbeConfig(width, height, panels, quot) ==
    LET regs_per_col == DIV_ROUND_UP(height, U32Of(8))
        panel_cols == quot
        cols_per_group == QuotU32(panel_cols, U32Of(4))
        panel_bytes == AddU32(MulU32(cols_per_group, regs_per_col), U32Of(1))
        group_bytes == MulU32(panels, panel_bytes)
        frame_bytes == MulU32(U32Of(4), group_bytes)
    IN  [width |-> width, height |-> height, panels |-> panels,
         regs_per_col |-> regs_per_col, panel_cols |-> panel_cols,
         cols_per_group |-> cols_per_group, panel_bytes |-> panel_bytes,
         group_bytes |-> group_bytes, frame_bytes |-> frame_bytes]

\* info->fix.smem_len = width * height / 8
ProbeSmemLen(width, height) == QuotU32(MulU32(width, height), U32Of(8))

ENOMEM == 12
ENOENT == 2
EINVAL == 22

\* The steps of busefb_probe that can fail, in program order.
ProbeFaults ==
    {"none", "info", "frame_buffer", "cs_gpio", "screen_base", "shadow_vram",
     "wq", "register"}

AllResources ==
    {"info", "frame_buffer", "cs_gpio", "screen_base", "shadow_vram", "wq"}

\* vzalloc(size) returns NULL for size 0, or when the allocation fails.
VzallocFails(size, failing) == size = <<0, 0>> \/ failing

\* The return value of busefb_probe once the configuration c is computed.
\* Every error path releases all that was acquired before it.
ProbeReturn(c, len, f) ==
    IF VzallocFails(c.frame_bytes, f = "frame_buffer") THEN -ENOMEM
    ELSE IF f = "cs_gpio" THEN -ENOENT
    ELSE IF VzallocFails(len, f = "screen_base") THEN -ENOMEM
    ELSE IF VzallocFails(len, f = "shadow_vram") THEN -ENOMEM
    ELSE IF f = "wq" THEN -ENOMEM
    ELSE IF f = "register" THEN -EINVAL
    ELSE 0

\* Geometries the device properties may give: the defaults 128, 19, 4, zeros,
\* non-divisible values and the largest u32.
DtWidths ==
    {U32Of(0), U32Of(4), U32Of(8), U32Of(16), U32Of(24), U32Of(128), U32Of(130)}
DtHeights == {U32Of(0), U32Of(1), U32Of(8), U32Of(19), U32_MAX}
DtPanels == {U32Of(0), U32Of(1), U32Of(3), U32Of(4)}

UnsetConfig ==
    [width |-> <<0, 0>>, height |-> <<0, 0>>, panels |-> <<0, 0>>,
     regs_per_col |-> <<0, 0>>, panel_cols |-> <<0, 0>>,
     cols_per_group |-> <<0, 0>>, panel_bytes |-> <<0, 0>>,
     group_bytes |-> <<0, 0>>, frame_bytes |-> <<0, 0>>]

ProbeInit ==
    /\ dt \in [width : DtWidths, height : DtHeights, panels : DtPanels]
    /\ fault \in ProbeFaults
    /\ cfg = UnsetConfig
    /\ probe_pc = "start"
    /\ probe_ret = 0
    /\ registered = FALSE
    /\ smem_len = <<0, 0>>
    /\ held = {}
    /\ acquired = {}
    /\ released = <<>>
    /\ screen_base = <<>>
    /\ shadow_vram = <<>>
    /\ frame_buffer = <<>>
    /\ encoded = FALSE
    /\ SnapIdle
    /\ SchedIdle

\* The calls of busefb_probe that acquire something or can fail, in program
\* order, and the first of them that fails ("none": probe succeeds).
ProbeSteps ==
    <<"info", "frame_buffer", "cs_gpio", "screen_base", "shadow_vram", "wq",
      "register">>

FailStep(c, len, f) ==
    IF f = "info" THEN "info"
    ELSE IF VzallocFails(c.frame_bytes, f = "frame_buffer") THEN "frame_buffer"
    ELSE IF f = "cs_gpio" THEN "cs_gpio"
    ELSE IF VzallocFails(len, f = "screen_base") THEN "screen_base"
    ELSE IF VzallocFails(len, f = "shadow_vram") THEN "shadow_vram"
    ELSE IF f = "wq" THEN "wq"
    ELSE IF f = "register" THEN "register"
    ELSE "none"

\* What probe has acquired when the call `step` fails.
AcquiredBefore(step) ==
    IF step = "none" THEN AllResources
    ELSE LET k == CHOOSE i \in 1..Len(ProbeSteps) : ProbeSteps[i] = step
         IN  {ProbeSteps[i] : i \in 1..(k - 1)}

\* The error labels of busefb_probe in program order, with what each
\* releases before falling through to the next.
ErrLabels ==
    <<[label |-> "err_destroy_wq", frees |-> "wq"],
      [label |-> "err_free_shadow_vram", frees |-> "shadow_vram"],
      [label |-> "err_free_screen_base", frees |-> "screen_base"],
      [label |-> "err_free_frame_buffer", frees |-> "frame_buffer"],
      [label |-> "err_release", frees |-> "info"]>>

\* The mutation of ErrGoto: a failed vzalloc of screen_base jumps to
\* err_release.
ErrGoto_SkipFrameBuffer(step) ==
    CASE step = "frame_buffer" -> "err_release"
      [] step = "cs_gpio" -> "err_free_frame_buffer"
      [] step = "screen_base" -> "err_release"
      [] step = "shadow_vram" -> "err_free_screen_base"
      [] step = "wq" -> "err_free_shadow_vram"
      [] step = "register" -> "err_destroy_wq"
      [] OTHER -> "return"

\* The label the failure of `step` jumps to ("return": no clean-up code runs).
ErrGoto(step) ==
    CASE step = "frame_buffer" -> "err_release"
      [] step = "cs_gpio" -> "err_free_frame_buffer"
      [] step = "screen_base" -> "err_free_frame_buffer"
      [] step = "shadow_vram" -> "err_free_screen_base"
      [] step = "wq" -> "err_free_shadow_vram"
      [] step = "register" -> "err_destroy_wq"
      [] OTHER -> "return"

\* The releases done from `label` to the end of the function.
ReleasedFrom(label) ==
    IF label = "return" THEN <<>>
    ELSE LET k == CHOOSE i \in 1..Len(ErrLabels) : ErrLabels[i].label = label
         IN  [i \in 1..(Len(ErrLabels) - k + 1) |-> ErrLabels[k + i - 1].frees]

\* All releases of a probe that fails at `step`: those of the error labels,
\* then the driver core releases the devm-managed chip-select if it was got.
ProbeReleases(step) ==
    IF step = "none" THEN <<>>
    ELSE ReleasedFrom(ErrGoto(step))
           \o (IF "cs_gpio" \in AcquiredBefore(step) THEN <<"cs_gpio">> ELSE <<>>)

\* busefb_probe of part_001, from entry to return. The buffers themselves
\* are not built here, only their sizes.
ch_busefb_probe ==
    /\ probe_pc = "start"
    /\ IF fault = "info"
       THEN /\ probe_pc' = "done"
            /\ probe_ret' = -ENOMEM
            /\ UNCHANGED <<cfg, smem_len, registered, held, acquired, released, wq>>
       ELSE \E quot \in DivU32(dt.width, dt.panels) :
            IF quot = "trap"
            THEN /\ probe_pc' = "oops"
                 /\ held' = {"info"}
                 /\ acquired' = {"info"}
                 /\ UNCHANGED <<cfg, smem_len, registered, probe_ret, released, wq>>
            ELSE LET c == ProbeConfig(dt.width, dt.height, dt.panels, quot)
                     len == ProbeSmemLen(dt.width, dt.height)
                     ret == ProbeReturn(c, len, fault)
                     step == FailStep(c, len, fault)
                 IN  /\ probe_pc' = "done"
                     /\ cfg' = c
                     /\ probe_ret' = ret
                     /\ smem_len' = IF VzallocFails(c.frame_bytes, fault = "frame_buffer")
                                       \/ fault = "cs_gpio"
                                    THEN <<0, 0>> ELSE len
                     /\ registered' = (ret = 0)
                     /\ acquired' = AcquiredBefore(step)
                     /\ released' = ProbeReleases(step)
                     /\ held' = acquired' \ Range(released')
                     /\ wq' = IF ret = 0 THEN queue_work(wq, "refresh_work") ELSE wq
    /\ UNCHANGED <<bufVars, dt, fault, current_group, cs_gpio, refresh_timer,
                   cs_delay_timer, running, rm_pc, tx, failed_at, uaf>>

ProbeNext == ch_busefb_probe

SpecProbe == ProbeInit /\ [][ProbeNext]_vars

\* The geometry the claims call valid: positive sizes, width divisible by
\* panels, width / panels divisible by 4.
ValidGeometry(d) ==
    /\ d.width # <<0, 0>> /\ d.height # <<0, 0>> /\ d.panels # <<0, 0>>
    /\ RemU32(d.width, d.panels) = <<0, 0>>
    /\ RemU32(QuotU32(d.width, d.panels), U32Of(4)) = <<0, 0>>

\* ceil(h / 8) of a u32 h, in the integers (at most 2^29).
Ceil8(h) == h[1] * 8192 + ((h[2] + 7) \div 8)

\* C9 (as claimed): with a geometry that violates the constraints, probe
\* returns an error and brings up nothing: no framebuffer registered, no
\* refresh work queued.
C9_InvalidGeometryRejected ==
    (probe_pc = "done" /\ ~ValidGeometry(dt)) =>
        /\ probe_ret < 0
        /\ ~registered
        /\ wq = <<>>

\* C10 (as claimed): for every valid geometry the constants computed by probe
\* are regs_per_col = ceil(H/8), panel_cols = W/P, cols_per_group =
\* panel_cols/4, panel_bytes = 1 + cols_per_group*regs_per_col, group_bytes =
\* P*panel_bytes, frame_bytes = 4*P*(1 + cols_per_group*regs_per_col), and
\* for 128, 19, 4 they are the compile-time constants of busefb.c.
C10_ConfigFormulas ==
    (probe_pc = "done" /\ fault # "info" /\ ValidGeometry(dt)) =>
        /\ cfg.regs_per_col = U32Of(Ceil8(dt.height))
        /\ cfg.panel_cols = U32Of(Val(dt.width) \div Val(dt.panels))
        /\ cfg.cols_per_group = U32Of(Val(cfg.panel_cols) \div 4)
        /\ cfg.panel_bytes =
              U32Of(1 + Val(cfg.cols_per_group) * Val(cfg.regs_per_col))
        /\ cfg.group_bytes = U32Of(Val(dt.panels) * Val(cfg.panel_bytes))
        /\ cfg.frame_bytes =
              U32Of(4 * Val(dt.panels)
                      * (1 + Val(cfg.cols_per_group) * Val(cfg.regs_per_col)))
        /\ (dt = [width |-> U32Of(128), height |-> U32Of(19), panels |-> U32Of(4)] =>
              /\ cfg.regs_per_col = U32Of(REGS_PER_COL)
              /\ cfg.panel_cols = U32Of(PANEL_COLS)
              /\ cfg.cols_per_group = U32Of(COLS_PER_GROUP)
              /\ cfg.panel_bytes = U32Of(PANEL_BYTES)
              /\ cfg.group_bytes = U32Of(GROUP_BYTES)
              /\ cfg.frame_bytes = U32Of(FRAME_BYTES))

----------------------------------------------------------------------------
(* part_001: the encoder of refresh_work_func on the run-time geometry.    *)

\* Where the loop body puts pixel (x, y): the block of its group and panel,
\* the byte and the bit.
ch_Dest(c, y, x) ==
    LET y_rev == Val(c.height) - 1 - y
        reg == y_rev \div 8
        bit == 7 - (y_rev % 8)
        panel == x \div Val(c.panel_cols)
        grp == x % 4
        cp == Xor1((x % Val(c.panel_cols)) \div 4)
        base == grp * Val(c.group_bytes) + panel * Val(c.panel_bytes)
    IN  [base |-> base, grp |-> grp, bit |-> bit,
         dst |-> base + 1 + cp * Val(c.regs_per_col) + reg]

\* Pixel (x, y) of the loops is set in the snapshot (read at column W-1-x).
ch_PixelSet(c, snap, y, x) ==
    LET x_mirrored == Val(c.width) - 1 - x
        idx == y * Val(c.width) + x_mirrored
    IN  TestBit(snap[idx \div 8], idx % 8)

\* The encoder has stored outside frame_buffer (hit) or not. The store is
\* undefined: it corrupts the memory behind the buffer unnoticed, or the
\* kernel oopses.
StoreOutside(hit) ==
    /\ oob' = (oob \/ hit)
    /\ rm_pc' \in IF hit THEN {rm_pc, "oops"} ELSE {rm_pc}

\* One iteration of the inner loop: pixel (x, y) of the snapshot. A store
\* past the end of frame_buffer does not change the frame (it lands in the
\* memory behind it).
ch_EncodePixel(c, snap, frame, y, x) ==
    IF ~ch_PixelSet(c, snap, y, x) THEN frame
    ELSE LET d == ch_Dest(c, y, x)
             withSel == [frame EXCEPT ![d.base] = d.grp]
         IN  IF d.dst \in DOMAIN frame
             THEN [withSel EXCEPT ![d.dst] = OrBit(withSel[d.dst], d.bit)]
             ELSE withSel

\* The encoder stores a byte outside frame_buffer for this snapshot.
ch_WritesOutside(c, snap) ==
    \E y \in 0..(Val(c.height) - 1), x \in 0..(Val(c.width) - 1) :
        /\ ch_PixelSet(c, snap, y, x)
        /\ ch_Dest(c, y, x).dst >= Val(c.frame_bytes)

\* The inner loop over x in lo .. hi-1, in increasing order.
RECURSIVE ch_EncodeCols(_, _, _, _, _, _)
ch_EncodeCols(c, snap, frame, y, lo, hi) ==
    IF lo >= hi THEN frame
    ELSE IF hi = lo + 1 THEN ch_EncodePixel(c, snap, frame, y, lo)
    ELSE LET mid == (lo + hi) \div 2
             first == ch_EncodeCols(c, snap, frame, y, lo, mid)
         IN  IF IsBuffer(first) THEN ch_EncodeCols(c, snap, first, y, mid, hi)
             ELSE first

\* The outer loop over y, from y on.
RECURSIVE ch_EncodeRows(_, _, _, _)
ch_EncodeRows(c, snap, frame, y) ==
    IF y >= Val(c.height) THEN frame
    ELSE LET row == ch_EncodeCols(c, snap, frame, y, 0, Val(c.width))
         IN  IF IsBuffer(row) THEN ch_EncodeRows(c, snap, row, y + 1) ELSE row

\* memset(frame_buffer, 0, frame_bytes) and the two loops.
ch_Encode(c, snap) == ch_EncodeRows(c, snap, ZeroBytes(Val(c.frame_bytes)), 0)

----------------------------------------------------------------------------
(* part_001: the self-chained scheduler.                                   *)

\* Geometries of the scheduler runs.
ChainGeometries ==
    {[width |-> U32Of(8), height |-> U32Of(2), panels |-> U32Of(1)],
     [width |-> U32Of(16), height |-> U32Of(9), panels |-> U32Of(2)]}

\* Surfaces the external writer puts on a screen of n bytes.
ChainSurfaces(n) == {ZeroBytes(n), [ZeroBytes(n) EXCEPT ![0] = 1]}

\* par->config and smem_len that busefb_probe computes for the geometry d.
ConfigOf(d) ==
    ProbeConfig(d.width, d.height, d.panels, QuotU32(d.width, d.panels))
SmemLenOf(d) == ProbeSmemLen(d.width, d.height)

\* ch_Encode, tabulated once on ChainGeometries and ChainSurfaces.
ChainFrames ==
    [d \in ChainGeometries |->
        [s \in ChainSurfaces(Val(SmemLenOf(d))) |-> ch_Encode(ConfigOf(d), s)]]

\* busefb_probe has returned 0 on one of ChainGeometries: buffers zeroed by
\* vzalloc, refresh_work queued, no timer started.
ChInit ==
    /\ dt \in ChainGeometries
    /\ fault = "none"
    /\ cfg = ProbeConfig(dt.width, dt.height, dt.panels,
                         QuotU32(dt.width, dt.panels))
    /\ smem_len = ProbeSmemLen(dt.width, dt.height)
    /\ probe_pc = "done"
    /\ probe_ret = 0
    /\ registered = TRUE
    /\ held = AllResources
    /\ acquired = AllResources
    /\ released = <<>>
    /\ screen_base = ZeroBytes(Val(smem_len))
    /\ shadow_vram = ZeroBytes(Val(smem_len))
    /\ frame_buffer = ZeroBytes(Val(cfg.frame_bytes))
    /\ encoded = FALSE
    /\ SnapIdle
    /\ current_group = 0
    /\ cs_gpio = 1
    /\ refresh_timer = FALSE
    /\ cs_delay_timer = FALSE
    /\ wq = <<"refresh_work">>
    /\ running = "none"
    /\ rm_pc = "bound"
    /\ tx = <<>>
    /\ failed_at = -1
    /\ uaf = FALSE

\* fb_write / fillrect / copyarea / imageblit on screen_base (no lock taken).
ch_fb_write ==
    /\ ~Freed
    /\ \E s \in ChainSurfaces(Val(smem_len)) : s # screen_base /\ screen_base' = s
    /\ UNCHANGED <<shadow_vram, frame_buffer, encoded, snapVars, schedVars, probeVars>>

\* cs_delay_timer_callback: queue cs_reassert_work, HRTIMER_NORESTART.
ch_cs_delay_timer_callback ==
    /\ cs_delay_timer
    /\ cs_delay_timer' = FALSE
    /\ IF Freed
       THEN CallbackAfterFree /\ UNCHANGED wq
       ELSE /\ wq' = IF Draining THEN wq ELSE queue_work(wq, "cs_reassert_work")
            /\ UNCHANGED <<rm_pc, uaf>>
    /\ UNCHANGED <<bufVars, probeVars, current_group, cs_gpio, refresh_timer,
                   running, tx, failed_at>>

\* process_next_group entered by work item `work` with par->current_group = g,
\* up to the blocking spi_sync. There is no test of g.
ch_process_next_group(work, g) ==
    /\ current_group' = g
    /\ cs_gpio' = 1
    /\ running' = work
    /\ tx' = Logged(g)

\* refresh_work_func, from its start to the spi_sync of group 0.
ch_refresh_work_func ==
    /\ WorkerAlive
    /\ running = "none"
    /\ wq # <<>> /\ Head(wq) = "refresh_work"
    /\ wq' = Tail(wq)
    /\ shadow_vram' = screen_base
    /\ frame_buffer' = ChainFrames[dt][shadow_vram']
    /\ encoded' = TRUE
    /\ ch_process_next_group("refresh_work", 0)
    /\ failed_at' = -1
    /\ StoreOutside(ch_WritesOutside(cfg, shadow_vram'))
    /\ UNCHANGED <<screen_base, copy_pos, seen, first_frame, probeVars,
                   refresh_timer, cs_delay_timer, uaf>>

\* cs_reassert_work_func mutated: after group 3 it goes on with
\* process_next_group instead of queueing refresh_work.
ch_cs_reassert_work_func_NoEncode ==
    /\ WorkerAlive
    /\ running = "none"
    /\ wq # <<>> /\ Head(wq) = "cs_reassert_work"
    /\ wq' = Tail(wq)
    /\ ch_process_next_group("cs_reassert_work", (current_group + 1) % 4)
    /\ UNCHANGED <<bufVars, probeVars, refresh_timer, cs_delay_timer, rm_pc,
                   failed_at, uaf>>

\* cs_reassert_work_func, from its start to its return (after group 3: queue
\* refresh_work) or to the spi_sync of the next group. queue_work from a work
\* item of the same workqueue is accepted while the workqueue drains.
ch_cs_reassert_work_func ==
    /\ WorkerAlive
    /\ running = "none"
    /\ wq # <<>> /\ Head(wq) = "cs_reassert_work"
    /\ IF current_group + 1 >= 4
       THEN /\ current_group' = 0
            /\ cs_gpio' = 1
            /\ wq' = queue_work(Tail(wq), "refresh_work")
            /\ tx' = <<>>
            /\ UNCHANGED running
       ELSE /\ wq' = Tail(wq)
            /\ ch_process_next_group("cs_reassert_work", current_group + 1)
    /\ UNCHANGED <<bufVars, probeVars, refresh_timer, cs_delay_timer, rm_pc,
                   failed_at, uaf>>

\* ch_spi_sync_return mutated: the hold timer is not started.
ch_spi_sync_return_NoTimer ==
    /\ running # "none"
    /\ cs_gpio' = 0
    /\ running' = "none"
    /\ UNCHANGED <<bufVars, probeVars, current_group, refresh_timer, cs_delay_timer,
                   wq, rm_pc, tx, failed_at, uaf>>

\* spi_sync returns in process_next_group: the result is dropped, chip-select
\* goes low and the hold timer is started; the work item returns.
ch_spi_sync_return ==
    /\ running # "none"
    /\ \E ret \in {"ok", "error"} :
          failed_at' = IF ret = "error" /\ failed_at = -1
                          THEN current_group ELSE failed_at
    /\ cs_gpio' = 0
    /\ cs_delay_timer' = TRUE
    /\ running' = "none"
    /\ UNCHANGED <<bufVars, probeVars, current_group, refresh_timer, wq, rm_pc, tx, uaf>>

\* busefb_remove, step by step.
ch_remove_cancel_cs_delay ==      \* hrtimer_cancel(&par->cs_delay_timer)
    /\ rm_pc = "bound"
    /\ rm_pc' = "cs_cancelled"
    /\ cs_delay_timer' = FALSE
    /\ UNCHANGED <<bufVars, probeVars, current_group, cs_gpio, refresh_timer, wq,
                   running, tx, failed_at, uaf>>

ch_remove_destroy_workqueue ==    \* unregister_framebuffer; destroy_workqueue starts draining
    /\ rm_pc = "cs_cancelled"
    /\ rm_pc' = "draining"
    /\ registered' = FALSE
    /\ UNCHANGED <<bufVars, dt, fault, cfg, probe_pc, probe_ret, smem_len, held,
                   acquired, released, current_group, cs_gpio, refresh_timer,
                   cs_delay_timer, wq, running, tx, failed_at, uaf>>

ch_remove_free ==                 \* destroy_workqueue returns; vfree, framebuffer_release
    /\ rm_pc = "draining"
    /\ wq = <<>> /\ running = "none"
    /\ rm_pc' = "freed"
    /\ held' = {}
    /\ released' = released \o <<"wq", "shadow_vram", "screen_base", "frame_buffer",
                               "info", "cs_gpio">>
    /\ UNCHANGED <<bufVars, dt, fault, cfg, probe_pc, probe_ret, registered, smem_len,
                   acquired, current_group, cs_gpio, refresh_timer,
                   cs_delay_timer, wq, running, tx, failed_at, uaf>>

ChNext ==
    \/ ch_fb_write
    \/ ch_cs_delay_timer_callback
    \/ ch_refresh_work_func
    \/ ch_cs_reassert_work_func
    \/ ch_spi_sync_return
    \/ ch_remove_cancel_cs_delay
    \/ ch_remove_destroy_workqueue
    \/ ch_remove_free

SpecChained == ChInit /\ [][ChNext]_vars

\* C4 (as claimed): in the self-chained variant, once busefb_remove has
\* destroyed the workqueue and freed the buffers the chain is stopped: the
\* hold timer is not armed, its callback has not run on the freed memory and
\* no work item is queued or running.
C4_ChainStoppedAfterRemove ==
    rm_pc \in {"freed", "oops"} =>
        /\ ~cs_delay_timer
        /\ ~uaf
        /\ rm_pc = "freed"
        /\ wq = <<>>
        /\ running = "none"

----------------------------------------------------------------------------
(* busefb.c: the snapshot copy of refresh_work_func against the writer.    *)
(* The memcpy runs under par->fb_lock; the write path of busefb_fbops      *)
(* (fb_sys_write, cfb_fillrect, cfb_copyarea, cfb_imageblit) takes no lock *)
(* and runs on another CPU.                                                *)

\* A surface that differs from the blank one in its first and last byte.
TwoEnds == [ZeroSurface EXCEPT ![0] = 1, ![SMEM_LEN - 1] = 128]

SnapSurfaces == {ZeroSurface, TwoEnds}

SnapInit ==
    /\ screen_base = ZeroSurface
    /\ shadow_vram = ZeroSurface
    /\ frame_buffer = ZeroBytes(FRAME_BYTES)
    /\ encoded = FALSE
    /\ SnapIdle
    /\ SchedIdle
    /\ ProbedFixed

\* The write path stores a new content in screen_base (fb_lock not taken).
snap_fb_write ==
    /\ \E s \in SnapSurfaces : s # screen_base /\ screen_base' = s
    /\ seen' = IF copy_pos >= 0 THEN seen \cup {screen_base'} ELSE seen
    /\ UNCHANGED <<shadow_vram, frame_buffer, encoded, copy_pos, first_frame, oob,
                   schedVars, probeVars>>

\* refresh_work_func: spin_lock(&par->fb_lock), the memcpy starts.
snap_lock ==
    /\ copy_pos = -1
    /\ copy_pos' = 0
    /\ seen' = {screen_base}
    /\ UNCHANGED <<screen_base, shadow_vram, frame_buffer, encoded, first_frame, oob,
                   schedVars, probeVars>>

\* memcpy copies the next byte of screen_base into the snapshot.
snap_memcpy_byte ==
    /\ copy_pos >= 0 /\ copy_pos < smem_len
    /\ shadow_vram' = [shadow_vram EXCEPT ![copy_pos] = screen_base[copy_pos]]
    /\ copy_pos' = copy_pos + 1
    /\ UNCHANGED <<screen_base, frame_buffer, encoded, seen, first_frame, oob,
                   schedVars, probeVars>>

\* memcpy is done: memset(frame_buffer, 0, FRAME_BYTES), spin_unlock.
snap_unlock ==
    /\ copy_pos = smem_len
    /\ copy_pos' = -1
    /\ frame_buffer' = ZeroBytes(FRAME_BYTES)
    /\ UNCHANGED <<screen_base, shadow_vram, encoded, seen, first_frame, oob,
                   schedVars, probeVars>>

SnapNext ==
    \/ snap_fb_write
    \/ snap_lock
    \/ snap_memcpy_byte
    \/ snap_unlock

SpecSnap == SnapInit /\ [][SnapNext]_vars

\* C11 (as claimed): the snapshot that a finished copy leaves in shadow_vram
\* is a content screen_base had at one instant of the copy: no write takes
\* effect between the first and the last byte copied.
C11_SnapshotAtOneInstant ==
    (copy_pos = -1 /\ seen # {}) => shadow_vram \in seen

----------------------------------------------------------------------------
(* busefb.c: repeated encodes into the same frame_buffer.                  *)

\* memset(buf, 0, sizeof buf) skipped: the mutation of Memset0.
Memset0_Skipped(buf) == buf

\* memset(buf, 0, sizeof buf)
Memset0(buf) == [i \in DOMAIN buf |-> 0]

\* Surfaces the writer puts on the screen between the encodes.
ReSurfaces ==
    {ZeroSurface, OnePixel(0), OnePixel(9 * WIDTH + 63),
     [k \in 0..(SMEM_LEN - 1) |-> 255]}

ReInit ==
    /\ screen_base \in ReSurfaces
    /\ shadow_vram = ZeroSurface
    /\ frame_buffer = ZeroBytes(FRAME_BYTES)
    /\ encoded = FALSE
    /\ SnapIdle
    /\ SchedIdle
    /\ ProbedFixed

re_fb_write ==
    /\ \E s \in ReSurfaces : s # screen_base /\ screen_base' = s
    /\ UNCHANGED <<shadow_vram, frame_buffer, encoded, snapVars, schedVars,
                   probeVars>>

\* The history after an encode of snapshot snap that gave frame: the frame of
\* the first encode of snap is kept; `again` tells that snap was encoded
\* once more after an encode of another snapshot.
Recorded(snap, frame) ==
    IF snap \in DOMAIN first_frame
    THEN [first_frame EXCEPT ![snap].again = @ \/ (encoded /\ shadow_vram # snap)]
    ELSE first_frame @@ (snap :> [frame |-> frame, again |-> FALSE])

\* refresh_work_func: snapshot, memset of the old frame, the two loops.
re_refresh_work_func ==
    /\ shadow_vram' = screen_base
    /\ frame_buffer' = EncodeRows(shadow_vram', Memset0(frame_buffer), 0)
    /\ encoded' = TRUE
    /\ first_frame' = Recorded(shadow_vram', frame_buffer')
    /\ UNCHANGED <<screen_base, copy_pos, seen, oob, schedVars, probeVars>>

ReNext ==
    \/ re_fb_write
    \/ re_refresh_work_func

SpecReenc == ReInit /\ [][ReNext]_vars

\* C12: the frame an encode leaves in frame_buffer is the frame the first
\* encode of the same snapshot gave, whatever was encoded in between: it
\* depends on the snapshot only, not on the previous content of frame_buffer.
C12_FrameDependsOnSnapshotOnly ==
    encoded => frame_buffer = first_frame[shadow_vram].frame

\* A snapshot with a set pixel is encoded again after another one.
C12_Witness ==
    /\ encoded
    /\ first_frame[shadow_vram].again
    /\ DataBits(frame_buffer) # {}
    /\ Cardinality(DOMAIN first_frame) = Cardinality(ReSurfaces)

----------------------------------------------------------------------------
(* Claims about the self-chained scheduler of part_001.                    *)

\* A bus write begins in this step (the worker enters spi_sync).
ch_WriteStarts == running = "none" /\ running' # "none"

\* cs_reassert_work_func processes the end of the hold of group 3.
ch_HoldOfLastGroupEnds ==
    /\ running = "none" /\ wq # <<>> /\ Head(wq) = "cs_reassert_work"
    /\ wq' # wq
    /\ current_group = 3

\* C13: in the chained variant the bus writes of a frame are those of groups
\* 0, 1, 2, 3 in this order; a write of g > 0 begins in cs_reassert_work_func,
\* after the hold timer of the write of g-1 has expired; processing the end
\* of the hold of group 3 writes nothing and queues refresh_work; the next
\* write is the write of group 0 at the end of a new snapshot and encode.
C13_ChainedOrder ==
    /\ [](Len(tx) <= 4 /\ \A i \in 1..Len(tx) : tx[i] = i - 1)
    /\ [][ch_WriteStarts =>
             /\ tx' = Append(tx, Len(tx))
             /\ current_group' = Len(tx)
             /\ ~cs_delay_timer
             /\ IF tx = <<>>
                THEN /\ running' = "refresh_work"
                     /\ shadow_vram' = screen_base
                     /\ frame_buffer' = ch_Encode(cfg, screen_base)
                ELSE /\ running' = "cs_reassert_work"
                     /\ cs_gpio = 0
                     /\ frame_buffer' = frame_buffer]_vars
    /\ [][ch_HoldOfLastGroupEnds =>
             /\ running' = "none"
             /\ tx' = <<>>
             /\ wq' = <<"refresh_work">>
             /\ cs_gpio' = 1]_vars
    /\ [][(running # "none" /\ running' = "none") =>
             (cs_gpio' = 0 /\ cs_delay_timer')]_vars

\* The end of the hold of group 3 has been processed and the refresh of the
\* next frame is queued.
C13_Witness ==
    /\ encoded
    /\ tx = <<>>
    /\ current_group = 0
    /\ wq = <<"refresh_work">>
    /\ rm_pc = "bound"

----------------------------------------------------------------------------
(* Claims about the error paths of busefb_probe of part_001.               *)

AllocFaults == {"frame_buffer", "screen_base", "shadow_vram", "wq"}

\* C14: when an allocation of busefb_probe fails, probe returns a negative
\* error, what was acquired before the failure is released exactly once and
\* nothing else is released, the framebuffer is not registered, and no work
\* item is queued and no timer armed.
C14_AllocFailureCleansUp ==
    (probe_pc = "done" /\ fault \in AllocFaults) =>
        /\ probe_ret < 0
        /\ Range(released) = acquired
        /\ Len(released) = Cardinality(acquired)
        /\ held = {}
        /\ ~registered
        /\ wq = <<>> /\ running = "none"
        /\ ~cs_delay_timer /\ ~refresh_timer

\* create_singlethread_workqueue fails for the default geometry: the three
\* buffers, info and the chip-select were acquired and are released.
C14_Witness ==
    /\ probe_pc = "done"
    /\ fault = "wq"
    /\ dt = [width |-> U32Of(128), height |-> U32Of(19), panels |-> U32Of(4)]
    /\ probe_ret = -ENOMEM
    /\ acquired = {"info", "frame_buffer", "cs_gpio", "screen_base", "shadow_vram"}
    /\ released = <<"shadow_vram", "screen_base", "frame_buffer", "info", "cs_gpio">>

\* Width and height are below 2^16: their product is an integer the model
\* checker can compute.
SmallGeometry(d) == d.width[1] = 0 /\ d.height[1] = 0

\* ceil(n / d) in the integers.
CeilDiv(n, d) == (n + d - 1) \div d

\* C15 (as claimed): for a valid geometry the surface and the snapshot hold
\* ceil(W*H/8) bytes, and the byte index idx >> 3 of every pixel index idx in
\* 0 .. W*H-1 the encoder reads is below smem_len.
C15_SurfaceHoldsAllPixels ==
    (probe_pc = "done" /\ probe_ret = 0 /\ ValidGeometry(dt) /\ SmallGeometry(dt)) =>
        LET bits == Val(dt.width) * Val(dt.height)
        IN  /\ smem_len = U32Of(CeilDiv(bits, 8))
            /\ \A idx \in {0, bits - 1} : idx \div 8 < Val(smem_len)

----------------------------------------------------------------------------
(* busefb.c: the hold window of a group.                                   *)

\* C16 (as claimed): chip-select goes from 0 back to 1 only in
\* cs_reassert_work_func, and only when the hold timer started after the last
\* bus write has expired; refresh_work_func does not end a hold window, and
\* neither does the work queued by the expiry of an earlier timer while the
\* timer of the last write is still armed.
C16_HoldEndsAtOwnExpiry ==
    [][(cs_gpio = 0 /\ cs_gpio' = 1) =>
          /\ ~cs_delay_timer
          /\ Head(wq) = "cs_reassert_work"
          /\ running' # "refresh_work"]_vars

----------------------------------------------------------------------------
(* part_001: the encoder on valid geometries, cols_per_group odd or even.  *)

\* Valid geometries with W*H a multiple of 8; cols_per_group is 1, 2, 3, 3.
EncGeometries ==
    {[width |-> U32Of(4), height |-> U32Of(8), panels |-> U32Of(1)],
     [width |-> U32Of(8), height |-> U32Of(9), panels |-> U32Of(1)],
     [width |-> U32Of(12), height |-> U32Of(16), panels |-> U32Of(1)],
     [width |-> U32Of(24), height |-> U32Of(8), panels |-> U32Of(2)]}

\* The blank surface of n bytes, those with one pixel set, and the full one.
GeomSurfaces(n) ==
    {ZeroBytes(n)}
      \cup {[ZeroBytes(n) EXCEPT ![idx \div 8] = Pow2(idx % 8)] : idx \in 0..(8 * n - 1)}
      \cup {[k \in 0..(n - 1) |-> 255]}

\* busefb_probe has returned 0 on one of EncGeometries and a content is on
\* the screen; the refresh queued by probe has not run yet.
ChEncInit ==
    /\ dt \in EncGeometries
    /\ fault = "none"
    /\ cfg = ProbeConfig(dt.width, dt.height, dt.panels,
                         QuotU32(dt.width, dt.panels))
    /\ smem_len = ProbeSmemLen(dt.width, dt.height)
    /\ probe_pc = "done"
    /\ probe_ret = 0
    /\ registered = TRUE
    /\ held = AllResources
    /\ acquired = AllResources
    /\ released = <<>>
    /\ screen_base \in GeomSurfaces(Val(smem_len))
    /\ shadow_vram = ZeroBytes(Val(smem_len))
    /\ frame_buffer = ZeroBytes(Val(cfg.frame_bytes))
    /\ encoded = FALSE
    /\ SnapIdle
    /\ SchedIdle

\* refresh_work_func of part_001, up to the end of the loops.
ch_EncRefresh ==
    /\ ~encoded
    /\ shadow_vram' = screen_base
    /\ frame_buffer' = ch_Encode(cfg, shadow_vram')
    /\ StoreOutside(ch_WritesOutside(cfg, shadow_vram'))
    /\ encoded' = TRUE
    /\ UNCHANGED <<screen_base, copy_pos, seen, first_frame, probeVars,
                   current_group, cs_gpio, refresh_timer, cs_delay_timer, wq,
                   running, tx, failed_at, uaf>>

ChEncNext == ch_EncRefresh

SpecChEnc == ChEncInit /\ [][ChEncNext]_vars

\* The pixels (y, x) of the loops.
ch_Pixels(c) == (0..(Val(c.height) - 1)) \X (0..(Val(c.width) - 1))

\* The data bits set in a frame of the geometry c, as <<byte offset, bit>>.
ch_DataBits(c, frame) ==
    {kb \in (DOMAIN frame) \X (0..7) :
        kb[1] % Val(c.panel_bytes) # 0 /\ TestBit(frame[kb[1]], kb[2])}

\* C17 (as claimed): for every valid geometry and snapshot the byte the
\* encoder sets a bit in for a set pixel is one of bytes 1 .. panel_bytes-1
\* of the block of the pixel's own group and panel; no store goes outside
\* frame_buffer; selector bytes hold 0 or their group; distinct pixels get
\* distinct (byte, bit), so the frame has as many data bits as the snapshot
\* has pixels.
C17_DataBitsInOwnBlock ==
    encoded =>
        LET on == {q \in ch_Pixels(cfg) : ch_PixelSet(cfg, shadow_vram, q[1], q[2])}
        IN  /\ ~oob
            /\ \A q \in on :
                  LET d == ch_Dest(cfg, q[1], q[2])
                  IN  /\ d.dst - d.base \in 1..(Val(cfg.panel_bytes) - 1)
                      /\ TestBit(frame_buffer[d.dst], d.bit)
            /\ \A k \in DOMAIN frame_buffer :
                  k % Val(cfg.panel_bytes) = 0 =>
                      frame_buffer[k] \in {0, (k \div Val(cfg.group_bytes))}
            /\ Cardinality(ch_DataBits(cfg, frame_buffer)) = Cardinality(on)

----------------------------------------------------------------------------
(* part_000: the synchronous variant. refresh_work_func encodes the        *)
(* surface into a local frame and transmits the four groups in a loop.     *)

\* One iteration of the inner loop of part_000 (no horizontal mirror).
sy_EncodePixel(snap, frame, y, x) ==
    LET idx == y * WIDTH + x
    IN  IF ~TestBit(snap[idx \div 8], idx % 8)
        THEN frame
        ELSE LET y_rev == HEIGHT - 1 - y
                 reg == y_rev \div 8
                 bit == 7 - (y_rev % 8)
                 panel == x \div PANEL_COLS
                 grp == x % GROUPS
                 cp == Xor1((x % PANEL_COLS) \div GROUPS)
                 base == grp * GROUP_BYTES + panel * PANEL_BYTES
                 dst == base + 1 + cp * REGS_PER_COL + reg
                 withSel == [frame EXCEPT ![base] = grp]
             IN  [withSel EXCEPT ![dst] = OrBit(withSel[dst], bit)]

RECURSIVE sy_EncodeCols(_, _, _, _, _)
sy_EncodeCols(snap, frame, y, lo, hi) ==
    IF lo >= hi THEN frame
    ELSE IF hi = lo + 1 THEN sy_EncodePixel(snap, frame, y, lo)
    ELSE LET mid == (lo + hi) \div 2
             first == sy_EncodeCols(snap, frame, y, lo, mid)
         IN  IF IsBuffer(first) THEN sy_EncodeCols(snap, first, y, mid, hi)
             ELSE first

RECURSIVE sy_EncodeRows(_, _, _)
sy_EncodeRows(snap, frame, y) ==
    IF y >= HEIGHT THEN frame
    ELSE LET row == sy_EncodeCols(snap, frame, y, 0, WIDTH)
         IN  IF IsBuffer(row) THEN sy_EncodeRows(snap, row, y + 1) ELSE row

\* u8 frame[FRAME_BYTES] = {0} and the two loops.
sy_Encode(snap) == sy_EncodeRows(snap, ZeroBytes(FRAME_BYTES), 0)

\* sy_Encode, tabulated once on SchedSurfaces.
SyFrames ==
    (ZeroSurface :> sy_Encode(ZeroSurface))
      @@ (OnePixel(0) :> sy_Encode(OnePixel(0)))

\* busefb_probe of part_000 has returned 0: refresh_timer is running.
SyInit ==
    /\ screen_base = ZeroSurface
    /\ shadow_vram = ZeroSurface
    /\ frame_buffer = ZeroBytes(FRAME_BYTES)
    /\ encoded = FALSE
    /\ SnapIdle
    /\ current_group = 0
    /\ cs_gpio = 1
    /\ refresh_timer = TRUE
    /\ cs_delay_timer = FALSE
    /\ wq = <<>>
    /\ running = "none"
    /\ rm_pc = "bound"
    /\ tx = <<>>
    /\ failed_at = -1
    /\ uaf = FALSE
    /\ ProbedFixed

sy_fb_write ==
    /\ ~Freed
    /\ \E s \in SchedSurfaces : s # screen_base /\ screen_base' = s
    /\ UNCHANGED <<shadow_vram, frame_buffer, encoded, snapVars, schedVars, probeVars>>

\* refresh_timer_callback: queue refresh_work, re-arm (HRTIMER_RESTART).
sy_refresh_timer_callback ==
    /\ refresh_timer
    /\ IF Freed
       THEN CallbackAfterFree /\ UNCHANGED wq
       ELSE /\ wq' = IF Draining THEN wq ELSE queue_work(wq, "refresh_work")
            /\ UNCHANGED <<rm_pc, uaf>>
    /\ UNCHANGED <<bufVars, probeVars, current_group, cs_gpio, refresh_timer,
                   cs_delay_timer, running, tx, failed_at>>

\* refresh_work_func, from its start to the spi_sync of group 0. The surface
\* is read in place (there is no snapshot); current_group is the loop
\* variable g, frame_buffer the local frame.
sy_refresh_work_func ==
    /\ WorkerAlive
    /\ running = "none"
    /\ wq # <<>> /\ Head(wq) = "refresh_work"
    /\ wq' = Tail(wq)
    /\ frame_buffer' = SyFrames[screen_base]
    /\ encoded' = TRUE
    /\ current_group' = 0
    /\ cs_gpio' = 1
    /\ running' = "refresh_work"
    /\ tx' = Logged(0)
    /\ failed_at' = -1
    /\ UNCHANGED <<screen_base, shadow_vram, snapVars, probeVars, refresh_timer,
                   cs_delay_timer, rm_pc, uaf>>

\* spi_sync of group g returns (result dropped): chip-select 0, udelay(50),
\* chip-select 1, udelay(5); then the loop goes on to the spi_sync of g+1, or
\* the work item returns after group 3.
sy_spi_sync_return ==
    /\ running = "refresh_work"
    /\ \E ret \in {"ok", "error"} :
          failed_at' = IF ret = "error" /\ failed_at = -1
                          THEN current_group ELSE failed_at
    /\ cs_gpio' = 1
    /\ IF current_group + 1 < GROUPS
       THEN /\ current_group' = current_group + 1
            /\ tx' = Logged(current_group + 1)
            /\ UNCHANGED running
       ELSE /\ running' = "none"
            /\ tx' = <<>>
            /\ UNCHANGED current_group
    /\ UNCHANGED <<bufVars, probeVars, refresh_timer, cs_delay_timer, wq, rm_pc, uaf>>

\* busefb_remove of part_000, step by step.
sy_remove_cancel_refresh ==       \* hrtimer_cancel(&par->refresh_timer)
    /\ rm_pc = "bound"
    /\ rm_pc' = "refresh_cancelled"
    /\ refresh_timer' = FALSE
    /\ UNCHANGED <<bufVars, probeVars, current_group, cs_gpio, cs_delay_timer, wq,
                   running, tx, failed_at, uaf>>

sy_remove_destroy_workqueue ==    \* unregister_framebuffer; destroy_workqueue starts draining
    /\ rm_pc = "refresh_cancelled"
    /\ rm_pc' = "draining"
    /\ registered' = FALSE
    /\ UNCHANGED <<bufVars, dt, fault, cfg, probe_pc, probe_ret, smem_len, held,
                   acquired, released, current_group, cs_gpio, refresh_timer,
                   cs_delay_timer, wq, running, tx, failed_at, uaf>>

sy_remove_free ==                 \* destroy_workqueue returns; vfree, framebuffer_release
    /\ rm_pc = "draining"
    /\ wq = <<>> /\ running = "none"
    /\ rm_pc' = "freed"
    /\ held' = {}
    /\ released' = released \o <<"wq", "screen_base", "info">>
    /\ UNCHANGED <<bufVars, dt, fault, cfg, probe_pc, probe_ret, registered, smem_len,
                   acquired, current_group, cs_gpio, refresh_timer,
                   cs_delay_timer, wq, running, tx, failed_at, uaf>>

SyNext ==
    \/ sy_fb_write
    \/ sy_refresh_timer_callback
    \/ sy_refresh_work_func
    \/ sy_spi_sync_return
    \/ sy_remove_cancel_refresh
    \/ sy_remove_destroy_workqueue
    \/ sy_remove_free

SpecSync == SyInit /\ [][SyNext]_vars

\* C18: in the synchronous variant the ticks that fire while refresh_work_func
\* runs leave at most one refresh_work pending; a run starts only when none is
\* running; the bus writes of a run are those of groups 0, 1, 2, 3 in this
\* order, all from the frame encoded at its start, and the run ends after
\* the write of group 3.
C18_TicksCoalesced ==
    /\ [](Len(wq) <= 1)
    /\ [](running \in {"none", "refresh_work"})
    /\ [](Len(tx) <= GROUPS /\ \A i \in 1..Len(tx) : tx[i] = i - 1)
    /\ [](running = "refresh_work" <=> tx # <<>>)
    /\ [][tx' # tx /\ tx' # <<>> =>
             /\ tx' = Append(tx, Len(tx))
             /\ current_group' = Len(tx)
             /\ (tx = <<>> => running = "none")
             /\ (tx # <<>> => frame_buffer' = frame_buffer)]_vars
    /\ [][tx # <<>> /\ tx' = <<>> => tx = <<0, 1, 2, 3>>]_vars

\* A tick has fired during the write of group 2: one refresh_work is pending
\* while refresh_work_func runs.
C18_Witness ==
    /\ running = "refresh_work"
    /\ tx = <<0, 1, 2>>
    /\ wq = <<"refresh_work">>
    /\ refresh_timer

----------------------------------------------------------------------------
(* part_001: progress of the chain when busefb_remove is not called.       *)
(* The hold timer expires, the worker thread runs the pending work items   *)
(* and spi_sync returns: each is weakly fair. The writer is not.           *)

ChLiveNext ==
    \/ ch_fb_write
    \/ ch_cs_delay_timer_callback
    \/ ch_refresh_work_func
    \/ ch_cs_reassert_work_func
    \/ ch_spi_sync_return

SpecChainedLive ==
    /\ ChInit
    /\ [][ChLiveNext]_vars
    /\ WF_vars(ch_cs_delay_timer_callback)
    /\ WF_vars(ch_refresh_work_func)
    /\ WF_vars(ch_cs_reassert_work_func)
    /\ WF_vars(ch_spi_sync_return)

\* refresh_work_func has encoded a frame and is in the bus write of group 0.
ch_Encoding == running = "refresh_work" /\ current_group = 0

\* The bus write of group 3 of the frame is under way.
ch_WritingLast == running = "cs_reassert_work" /\ current_group = 3

\* C19: without teardown and with a fair hold timer and worker thread the
\* chain never stalls: every encode is followed by the bus write of group 3
\* of that frame, this write by a new encode, and there are infinitely many
\* encodes.
C19_ChainNeverStalls ==
    /\ (ch_Encoding ~> ch_WritingLast)
    /\ (ch_WritingLast ~> ch_Encoding)
    /\ []<>ch_Encoding

\* The write of group 3 of a frame follows those of groups 0, 1, 2.
C19_Witness ==
    /\ ch_WritingLast
    /\ tx = <<0, 1, 2, 3>>
    /\ encoded
    /\ rm_pc = "bound"

----------------------------------------------------------------------------
(* busefb.c and part_001 side by side: the device runs one of the two      *)
(* drivers: part_001 allocates frame_buffer in probe, busefb.c has it      *)
(* inside par.                                                             *)

IsChained == "frame_buffer" \in acquired

BothInit == PerInit \/ ChInit

BothNext ==
    \/ (~IsChained /\ PerNext)
    \/ (IsChained /\ ChNext)

SpecBoth == BothInit /\ [][BothNext]_vars

\* The length of one bus write of the running driver.
GroupBytes == IF IsChained THEN Val(cfg.group_bytes) ELSE cfg.group_bytes

\* C20: whenever a bus write is under way, current_group is in 0..3 and the
\* bytes transmitted, [g*group_bytes, (g+1)*group_bytes), are bytes of
\* frame_buffer.
C20_GroupInRange ==
    running # "none" =>
        /\ current_group \in 0..3
        /\ \A k \in (current_group * GroupBytes)..((current_group + 1) * GroupBytes - 1) :
              k \in DOMAIN frame_buffer

\* busefb.c writes group 3 of a cycle that a tick restarted after its first
\* write, with a hold timer of the restarted cycle behind it.
C20_Witness ==
    /\ ~IsChained
    /\ running = "cs_reassert_work"
    /\ current_group = 3
    /\ tx = <<0, 0, 1, 2>>

----------------------------------------------------------------------------
(* Chip-select of busefb.c.                                                *)

\* No work item is queued or running and the hold timer is not armed.
Quiescent == wq = <<>> /\ running = "none" /\ ~cs_delay_timer

\* spi_sync returns in this step: the bus write ends.
WriteEnds == running # "none" /\ running' = "none"

\* C21 (as claimed): chip-select is 1 during every bus write; the step that
\* ends a bus write sets it to 0 and starts the hold timer; it is 1 in every
\* quiescent state; and whenever it is 0 the hold timer is armed or
\* cs_reassert_work is queued.
C21_ChipSelectFollowsHold ==
    /\ [](running # "none" => cs_gpio = 1)
    /\ [][WriteEnds => (cs_gpio' = 0 /\ cs_delay_timer')]_vars
    /\ [](Quiescent => cs_gpio = 1)
    /\ [](cs_gpio = 0 => (cs_delay_timer \/ "cs_reassert_work" \in Range(wq)))

----------------------------------------------------------------------------
(* busefb_probe of busefb.c and of part_000 (compile-time geometry).       *)
(* par and the chip-select line are device-managed and not tracked in      *)
(* held; after an error return the driver core frees par, and with it the  *)
(* two hrtimers and the work items.                                        *)

\* The calls of busefb_probe that can fail, in program order.
FixedSteps ==
    <<"par", "cs_gpio", "info", "screen_base", "shadow_vram", "wq", "register">>
SySteps == <<"par", "cs_gpio", "info", "screen_base", "wq", "register">>

FixedFaults == {"none"} \cup Range(FixedSteps)

\* What the error labels release, in the order of acquisition.
Tracked == {"info", "screen_base", "shadow_vram", "wq"}

\* The position of the failing call f in steps (past the end: no failure).
StepIndex(steps, f) ==
    IF f \in Range(steps) THEN CHOOSE i \in 1..Len(steps) : steps[i] = f
    ELSE Len(steps) + 1

\* The tracked resources acquired by the calls before the failing one.
FixedAcquired(steps, f) ==
    {steps[i] : i \in 1..(StepIndex(steps, f) - 1)} \cap Tracked

\* err_wq, err_shadow, err_vram, err_fb fall through: the releases are those
\* of the acquired resources, the last acquired first.
FixedReleased(steps, f) ==
    IF f \notin Range(steps) THEN <<>>
    ELSE LET n == StepIndex(steps, f) - 1
             rev == [i \in 1..n |-> steps[n + 1 - i]]
         IN  SelectSeq(rev, LAMBDA r : r \in Tracked)

FixedReturn(steps, f) ==
    IF f \notin Range(steps) THEN 0
    ELSE IF f = "cs_gpio" THEN -ENOENT
    ELSE IF f = "register" THEN -EINVAL
    ELSE -ENOMEM

\* hrtimer_start(&par->refresh_timer) precedes register_framebuffer and no
\* error label cancels the timer.
TimerLeftArmed(steps, f) == f \notin Range(steps) \/ f = "register"

FixedProbeInit ==
    /\ dt = [width |-> WIDTH, height |-> HEIGHT, panels |-> PANELS]
    /\ fault \in FixedFaults
    /\ cfg = [width |-> WIDTH, height |-> HEIGHT, panels |-> PANELS,
              regs_per_col |-> REGS_PER_COL, panel_cols |-> PANEL_COLS,
              cols_per_group |-> COLS_PER_GROUP, panel_bytes |-> PANEL_BYTES,
              group_bytes |-> GROUP_BYTES, frame_bytes |-> FRAME_BYTES]
    /\ probe_pc = "start"
    /\ probe_ret = 0
    /\ registered = FALSE
    /\ smem_len = SMEM_LEN
    /\ held = {}
    /\ acquired = {}
    /\ released = <<>>
    /\ screen_base = ZeroSurface
    /\ shadow_vram = ZeroSurface
    /\ frame_buffer = ZeroBytes(FRAME_BYTES)
    /\ encoded = FALSE
    /\ SnapIdle
    /\ SchedIdle

\* busefb_probe from entry to return, the failing call being fault. hold
\* tells whether a tick fired between hrtimer_start and destroy_workqueue and
\* the drained refresh_work left a hold window open (busefb.c only).
FixedProbe(steps, hold) ==
    /\ probe_pc = "start"
    /\ fault \in {"none"} \cup Range(steps)
    /\ probe_pc' = "done"
    /\ probe_ret' = FixedReturn(steps, fault)
    /\ registered' = (probe_ret' = 0)
    /\ acquired' = FixedAcquired(steps, fault)
    /\ released' = FixedReleased(steps, fault)
    /\ held' = acquired' \ Range(released')
    /\ refresh_timer' = TimerLeftArmed(steps, fault)
    /\ cs_delay_timer' = hold
    /\ cs_gpio' = IF hold THEN 0 ELSE 1
    /\ rm_pc' = IF probe_ret' = 0 THEN "bound" ELSE "freed"
    /\ UNCHANGED <<bufVars, dt, fault, cfg, smem_len, current_group, wq, running,
                   tx, failed_at, uaf>>

\* busefb.c
busefb_probe ==
    \E hold \in BOOLEAN :
        /\ hold => fault = "register"
        /\ FixedProbe(FixedSteps, hold)

\* part_000: refresh_work_func runs to its end when drained.
sy_busefb_probe == FixedProbe(SySteps, FALSE)

\* The bound driver is busefb.c (it has a snapshot buffer).
HasShadow == "shadow_vram" \in acquired

FixedProbeNext ==
    \/ busefb_probe
    \/ sy_busefb_probe
    \/ (probe_pc = "done" /\ HasShadow /\ PerNext)
    \/ (probe_pc = "done" /\ ~HasShadow /\ SyNext)

SpecFixedProbe == FixedProbeInit /\ [][FixedProbeNext]_vars

\* C22 (as claimed): after every error return of busefb_probe of busefb.c
\* and of part_000, refresh_timer is not armed, no refresh work is queued,
\* and no timer callback runs on the destroyed workqueue and freed buffers.
C22_ErrorReturnLeavesNothing ==
    (probe_pc = "done" /\ probe_ret < 0) =>
        /\ ~refresh_timer
        /\ "refresh_work" \notin Range(wq)
        /\ ~uaf
        /\ held = {}

----------------------------------------------------------------------------
(* busefb.c: progress of the transmit/hold chain while the device stays    *)
(* bound. The hold timer expires, the worker thread runs the pending work  *)
(* items and spi_sync returns: each is weakly fair. The refresh tick and   *)
(* the writer are not: they may stop.                                      *)

PerLiveNext ==
    \/ fb_write
    \/ refresh_timer_callback
    \/ cs_delay_timer_callback
    \/ refresh_work_func
    \/ cs_reassert_work_func
    \/ spi_sync_return

SpecPeriodicLive ==
    /\ PerInit
    /\ [][PerLiveNext]_vars
    /\ WF_vars(cs_delay_timer_callback)
    /\ WF_vars(refresh_work_func)
    /\ WF_vars(cs_reassert_work_func)
    /\ WF_vars(spi_sync_return)

\* The chain is at rest.
AtRest == Quiescent /\ current_group = 0 /\ cs_gpio = 1

\* C23: either refresh ticks queue refresh_work again and again, or from
\* some point on the chain is at rest: nothing queued or running, the hold
\* timer not armed, current_group = 0 and chip-select 1; and the chain leaves
\* the rest state only by a tick.
C23_ChainComesToRest ==
    /\ ([]<><<refresh_timer_callback>>_vars) \/ <>[]AtRest
    /\ [][(AtRest /\ ~AtRest') => refresh_timer_callback]_vars

\* The chain is at rest again after a frame was transmitted.
C23_Witness == AtRest /\ encoded /\ shadow_vram = OnePixel(0)

----------------------------------------------------------------------------
(* The encoder of busefb.c beside the encoder of part_001 probed with the  *)
(* default properties, on the same surface. frame_buffer is the frame of   *)
(* part_001; first_frame keeps the frame of busefb.c.                      *)

\* u32 width = 128, height = 19, panels = 4: no property overrides them.
DefaultGeometry ==
    [width |-> U32Of(128), height |-> U32Of(19), panels |-> U32Of(4)]

EqInit ==
    /\ dt = DefaultGeometry
    /\ fault = "none"
    /\ cfg = ConfigOf(dt)
    /\ smem_len = SmemLenOf(dt)
    /\ probe_pc = "done"
    /\ probe_ret = 0
    /\ registered = TRUE
    /\ held = AllResources
    /\ acquired = AllResources
    /\ released = <<>>
    /\ screen_base \in EncSurfaces
    /\ shadow_vram = ZeroBytes(Val(smem_len))
    /\ frame_buffer = ZeroBytes(Val(cfg.frame_bytes))
    /\ encoded = FALSE
    /\ SnapIdle
    /\ SchedIdle

\* refresh_work_func of busefb.c up to the end of the loops, on the surface.
eq_EncRefresh ==
    /\ first_frame = <<>>
    /\ first_frame' = Recorded(screen_base, Encode(screen_base))
    /\ UNCHANGED <<screen_base, shadow_vram, frame_buffer, encoded, copy_pos,
                   seen, oob, schedVars, probeVars>>

\* The two encoders do not share anything: one order is enough.
EqNext ==
    \/ eq_EncRefresh
    \/ (first_frame # <<>> /\ ch_EncRefresh)

SpecEquiv == EqInit /\ [][EqNext]_vars

\* C24: for W=128, H=19, P=4, once both encoders have run on a snapshot, the
\* frame of part_001 (default configuration) is the frame of busefb.c, byte
\* for byte, 400 bytes long, and part_001 stored nothing outside it.
C24_EncodersAgree ==
    (encoded /\ first_frame # <<>>) =>
        /\ DOMAIN frame_buffer = 0..399
        /\ frame_buffer = first_frame[shadow_vram].frame
        /\ ~oob

\* Both encoders have run on the surface with every pixel set.
C24_Witness ==
    /\ encoded
    /\ first_frame # <<>>
    /\ shadow_vram = [k \in 0..(SMEM_LEN - 1) |-> 255]
    /\ Cardinality(DataBits(frame_buffer)) = WIDTH * HEIGHT

====
